---- MODULE Spec2Model ----
(***************************************************************************)
(* A model of pymatgen_diffusion/neb/pathfinder.py:                        *)
(*   - IDPPSolver.from_endpoints and IDPPSolver.run (specification Spec),  *)
(*   - MigrationPath.__init__/__hash__/__eq__ (specification SpecEq),      *)
(*   - DistinctPathFinder.get_paths (specification SpecPaths).             *)
(*                                                                         *)
(* Numbers.  Coordinates, forces, objective values and tolerances are      *)
(* floating point in the program.  The model keeps them as integers in    *)
(* one Cartesian component per site, with exact arithmetic, plus the one   *)
(* special value NaN with numpy's rules: NaN propagates through + * abs    *)
(* sign max and sum, and every comparison with NaN is false.               *)
(*                                                                         *)
(* Forces.  _get_funcs_and_forces and _get_total_forces are real-valued    *)
(* functions of the coordinates.  The model does not evaluate them: each   *)
(* iteration draws the objective value and the total force of every site   *)
(* from small sets (FuncVals, ForceVals), so every property checked holds  *)
(* whatever finite values those functions return.  What the model does    *)
(* compute from the coordinates is where they return NaN: the tangent of   *)
(* _get_total_forces divides by a norm that is zero when two consecutive   *)
(* images coincide or when the forward and backward directions cancel.     *)
(***************************************************************************)
EXTENDS Integers, Sequences, FiniteSets, TLC

VARIABLES
    \* ---- IDPPSolver.from_endpoints / IDPPSolver.run --------------------
    pc,              \* position of the caller: "new", "ready", "loop",
                     \* "build", "returned", "raised"
    endpoints,       \* the two end-point structures given to from_endpoints
    nimages_arg,     \* from_endpoints' nimages
    sort_tol,        \* from_endpoints' sort_tol
    interp_calls,    \* every interpolate() call made: its autosort_tol and
                     \* how it ended ("ok" or the error's message)
    warnings,        \* the UserWarnings emitted so far, in order
    raised,          \* the exception that left the call, or "none"
    structures,      \* self.structures
    init_coords,     \* self.init_coords
    nimages,         \* self.nimages
    args,            \* the arguments of run()
    n,               \* index of the next iteration of run's loop
    coords,          \* run's local coords
    old_funcs,       \* run's local old_funcs
    funcs,           \* run's local funcs (last evaluation)
    tot_forces,      \* run's local tot_forces (last evaluation)
    disp_mat,        \* run's local disp_mat (last iteration)
    indices,         \* run's local indices
    max_force,       \* run's local max_force (last iteration)
    tot_res,         \* run's local tot_res (last iteration)
    converged,       \* whether the loop was left by its break
    nevals,          \* number of objective/force evaluations made by run
    idpp_structures, \* run's return value
    \* ---- MigrationPath equality and hash --------------------------------
    epc,             \* "idle", "new", "compared"
    structA, structB,\* the symmetrized structures two paths are built on
    pairA, pairB,    \* the (isite, esite) of the two paths
    eq_result,       \* p == q
    hash_p, hash_q,  \* hash(p), hash(q)
    \* ---- DistinctPathFinder.get_paths -----------------------------------
    ppc,             \* "idle", "enum", "sort", "returned"
    structure,       \* self.structure
    symm_structure,  \* self.symm_structure
    migrating_specie,\* self.migrating_specie
    max_path_length, \* self.max_path_length
    cand_k,          \* index of the next candidate pair to insert
    paths,           \* the set `paths`, in insertion order
    pending,         \* the paths of the set that sorted() has not reached yet
    path_list        \* get_paths' return value

svars == <<pc, endpoints, nimages_arg, sort_tol, interp_calls, warnings, raised,
           structures, init_coords, nimages, args, n, coords, old_funcs, funcs,
           tot_forces, disp_mat, indices, max_force, tot_res, converged, nevals,
           idpp_structures>>
evars == <<epc, structA, structB, pairA, pairB, eq_result, hash_p, hash_q>>
pvars == <<ppc, structure, symm_structure, migrating_specie, max_path_length, cand_k, paths,
           pending, path_list>>
vars == <<svars, evars, pvars>>

(***************************************************************************)
(* Bounds of the model.                                                    *)
(***************************************************************************)
MaxImages == 2
MaxIter == 2
CellSites == 4
MaxPathLength == 2

(***************************************************************************)
(* Floating point with NaN (numpy semantics).                              *)
(***************************************************************************)
NaN == -1000

IsNaN(a) == a = NaN

FAdd(a, b) == IF IsNaN(a) \/ IsNaN(b) THEN NaN ELSE a + b

FSub(a, b) == IF IsNaN(a) \/ IsNaN(b) THEN NaN ELSE a - b

FMul(a, b) == IF IsNaN(a) \/ IsNaN(b) THEN NaN ELSE a * b

FAbs(a) == IF IsNaN(a) THEN NaN ELSE IF a < 0 THEN -a ELSE a

FSign(a) == IF IsNaN(a) THEN NaN ELSE IF a < 0 THEN -1 ELSE IF a > 0 THEN 1 ELSE 0

FLt(a, b) == ~IsNaN(a) /\ ~IsNaN(b) /\ a < b

FGt(a, b) == ~IsNaN(a) /\ ~IsNaN(b) /\ a > b

FLe(a, b) == ~IsNaN(a) /\ ~IsNaN(b) /\ a <= b

MaxOf(S) == CHOOSE m \in S : \A x \in S : x <= m

Range(f) == {f[k] : k \in DOMAIN f}

\* ndarray.max(): NaN if any entry is NaN
FMax(S) == IF NaN \in S THEN NaN ELSE MaxOf(S)

RECURSIVE SumOver(_, _)
SumOver(f, D) ==
    IF D = {} THEN 0
    ELSE LET d == CHOOSE d \in D : TRUE
         IN FAdd(f[d], SumOver(f, D \ {d}))

(***************************************************************************)
(* Structures: a structure is a function from site index 0..natoms-1 to a  *)
(* site [sp, x, props]; a chain is a function from image number            *)
(* 0..nimages+1 to a structure.                                            *)
(***************************************************************************)
Site(sp, x, props) == [sp |-> sp, x |-> x, props |-> props]

NumSites(s) == Cardinality(DOMAIN s)

StartStructure == [i \in 0..1 |-> IF i = 0 THEN Site("Li", 0, "a") ELSE Site("O", 10, "b")]

\* per-image displacement of each site between the two end points
EndSteps == {<<0, 0>>, <<1, 0>>, <<1, 1>>}

EndStructure(d, nimg) ==
    [i \in 0..1 |-> Site(StartStructure[i].sp,
                         StartStructure[i].x + d[i + 1] * nimg,
                         StartStructure[i].props)]

SortTols == {0, 1}

NoChain == [k \in {} |-> 0]

NoArgs == [maxiter |-> 0, tol |-> 0, gtol |-> 0, step_size |-> 0, max_disp |-> 0,
           has_species |-> FALSE, species |-> {}]

(***************************************************************************)
(* Structure.interpolate (pymatgen): the linear chain of nimg+1 images, or *)
(* an error.  Whether the library fails is the library's response, drawn   *)
(* by the caller; auto-matching can only fail when it is enabled.          *)
(***************************************************************************)
MatchError == "Unable to reliably match structures with auto_sort_tol"
OtherError == "Structures with different lattices!"

InterpolateResponses(autosort_tol) ==
    IF autosort_tol # 0 THEN {"ok", MatchError, OtherError} ELSE {"ok", OtherError}

Interpolate(start, end, nimg) ==
    [k \in 0..nimg |->
        [i \in DOMAIN start |->
            Site(start[i].sp,
                 start[i].x + (k * (end[i].x - start[i].x)) \div nimg,
                 start[i].props)]]

InterpCall(autosort_tol, result) == [autosort_tol |-> autosort_tol, result |-> result]

IsMatchFailureNever(msg) == FALSE

\* "Unable to reliably match structures " in str(e)
IsMatchFailure(msg) == msg = MatchError

AutoSortWarning == "Auto sorting is turned off because it is unable to match the end-point structures!"
ConvergenceWarning == "Maximum iteration number is reached without convergence!"

(***************************************************************************)
(* IDPPSolver.__init__: what run() reads of it.                            *)
(***************************************************************************)
InitCoords(chain) == [k \in DOMAIN chain |-> [i \in DOMAIN chain[k] |-> chain[k][i].x]]

NImagesOf(chain) == Cardinality(DOMAIN chain) - 2

(***************************************************************************)
(* IDPPSolver.from_endpoints                                               *)
(***************************************************************************)
FromEndpoints ==
    /\ pc = "new"
    /\ \E r1 \in InterpolateResponses(sort_tol), r2 \in InterpolateResponses(0) :
         LET images == Interpolate(endpoints[0], endpoints[1], nimages_arg + 1)
             retry == r1 # "ok" /\ IsMatchFailure(r1)
             built == r1 = "ok" \/ (retry /\ r2 = "ok")
         IN /\ interp_calls' =
                 IF retry THEN <<InterpCall(sort_tol, r1), InterpCall(0, r2)>>
                 ELSE <<InterpCall(sort_tol, r1)>>
            /\ warnings' = IF retry THEN Append(warnings, AutoSortWarning) ELSE warnings
            /\ raised' = IF built THEN "none" ELSE IF retry THEN r2 ELSE r1
            /\ pc' = IF built THEN "ready" ELSE "raised"
            /\ structures' = IF built THEN images ELSE structures
            /\ init_coords' = IF built THEN InitCoords(images) ELSE init_coords
            /\ nimages' = IF built THEN NImagesOf(images) ELSE nimages
    /\ UNCHANGED <<endpoints, nimages_arg, sort_tol, args, n, coords, old_funcs,
                   funcs, tot_forces, disp_mat, indices, max_force, tot_res,
                   converged, nevals, idpp_structures>>
    /\ UNCHANGED <<evars, pvars>>

(***************************************************************************)
(* IDPPSolver.run: arguments                                               *)
(***************************************************************************)
StepSizes == {1, 2}
MaxDisps == {1, 2}
Tols == {1}
GTols == {2}
SpeciesArgs == {[has |-> FALSE, sp |-> {}],
                [has |-> TRUE, sp |-> {"Li"}],
                [has |-> TRUE, sp |-> {"Na"}]}

RunArgs ==
    {[maxiter |-> mi, tol |-> t, gtol |-> g, step_size |-> ss, max_disp |-> md,
      has_species |-> s.has, species |-> s.sp] :
        mi \in 0..MaxIter, t \in Tols, g \in GTols, ss \in StepSizes,
        md \in MaxDisps, s \in SpeciesArgs}

\* the values an objective function / a total-force component may take
FuncVals == {0, 1}
ForceVals == {-3, 1}

Atoms == DOMAIN structures[0]

IndicesAllSites(strs, a) == DOMAIN strs[0]

\* run, lines 129-134
Indices(strs, a) ==
    IF ~a.has_species THEN DOMAIN strs[0]
    ELSE {i \in DOMAIN strs[0] : strs[0][i].sp \in a.species}

Zeros(D) == [d \in D |-> 0]

InvalidSpeciesUnchecked(a, ind) == FALSE

\* run, lines 131 and 136
InvalidSpecies(a, ind) == a.has_species /\ ind = {}

(***************************************************************************)
(* run, lines 124-137: the set-up and the species check.                   *)
(***************************************************************************)
RunStart ==
    /\ pc = "ready"
    /\ \E a \in RunArgs :
         LET ind == Indices(structures, a)
         IN /\ args' = a
            /\ n' = 0
            /\ coords' = init_coords
            /\ old_funcs' = Zeros(0..(nimages - 1))
            /\ indices' = ind
            /\ IF InvalidSpecies(a, ind)
               THEN pc' = "raised" /\ raised' = "ValueError"
               ELSE pc' = "loop" /\ raised' = raised
    /\ UNCHANGED <<endpoints, nimages_arg, sort_tol, interp_calls, warnings,
                   structures, init_coords, nimages, funcs, tot_forces, disp_mat,
                   max_force, tot_res, converged, nevals, idpp_structures>>
    /\ UNCHANGED <<evars, pvars>>

(***************************************************************************)
(* Where the force evaluation returns NaN.                                 *)
(***************************************************************************)
HasNaN(v) == \E i \in DOMAIN v : IsNaN(v[i])

IsZeroVec(v) == \A i \in DOMAIN v : v[i] = 0

VecSub(a, b) == [i \in DOMAIN a |-> FSub(a[i], b[i])]

\* unit(v1) + unit(v2) = 0 in exact arithmetic: v1 = -c * v2 for some c > 0
AntiParallel(v1, v2) ==
    /\ \A i, j \in DOMAIN v1 : v1[i] * v2[j] = v1[j] * v2[i]
    /\ \E i \in DOMAIN v1 : v1[i] * v2[i] < 0

\* _get_total_forces, lines 262-267, for image number k (1..nimages)
TangentIsNaN(x, k) ==
    LET vec1 == VecSub(x[k + 1], x[k])
        vec2 == VecSub(x[k], x[k - 1])
    IN \/ HasNaN(vec1) \/ HasNaN(vec2)
       \/ IsZeroVec(vec1) \/ IsZeroVec(vec2)
       \/ AntiParallel(vec1, vec2)

\* _get_funcs_and_forces: funcs[ni] is the objective of image ni + 1
GetFuncs(x, c) ==
    [ni \in 0..(nimages - 1) |-> IF HasNaN(x[ni + 1]) THEN NaN ELSE c]

\* _get_total_forces: tot_forces[ni] is the force matrix of image ni + 1
GetTotalForces(x, g) ==
    [ni \in 0..(nimages - 1) |->
        [i \in DOMAIN x[ni + 1] |->
            IF HasNaN(x[ni + 1]) \/ TangentIsNaN(x, ni + 1) THEN NaN ELSE g[i]]]

(***************************************************************************)
(* run, lines 147-155: one displacement, the update, the residuals.        *)
(***************************************************************************)
\* lines 148-151
Displacement(f, step_size, max_disp) ==
    LET d == FMul(step_size, f)
    IN IF FGt(FAbs(d), max_disp) THEN FMul(FSign(d), max_disp) ELSE d

DispMat(tf, ind, a) ==
    [ni \in DOMAIN tf |-> [i \in ind |-> Displacement(tf[ni][i], a.step_size, a.max_disp)]]

\* line 152: images 1..nimages, sites in ind
Moved(k, i, ind) == k \in 1..nimages /\ i \in ind

UpdateCoordsAllImages(x, dm, ind) ==
    [k \in DOMAIN x |->
        [i \in DOMAIN x[k] |->
            IF i \in ind
            THEN FAdd(x[k][i], dm[IF k - 1 \in DOMAIN dm THEN k - 1 ELSE 0][i])
            ELSE x[k][i]]]

UpdateCoords(x, dm, ind) ==
    [k \in DOMAIN x |->
        [i \in DOMAIN x[k] |->
            IF Moved(k, i, ind) THEN FAdd(x[k][i], dm[k - 1][i]) ELSE x[k][i]]]

\* line 154
MaxForce(tf, ind) == FMax({FAbs(tf[ni][i]) : ni \in DOMAIN tf, i \in ind})

\* line 155
TotRes(old, new) == SumOver([ni \in DOMAIN new |-> FAbs(FSub(old[ni], new[ni]))], DOMAIN new)

ConvergedEither(res, mf, a) == FLt(res, a.tol) \/ FLt(mf, a.gtol)

\* line 157
Converged(res, mf, a) == FLt(res, a.tol) /\ FLt(mf, a.gtol)

(***************************************************************************)
(* run, lines 140-160: one iteration of the loop.                          *)
(***************************************************************************)
Iterate ==
    /\ pc = "loop"
    /\ n < args.maxiter
    /\ nimages >= 1
    /\ \E c \in FuncVals, g \in [Atoms -> ForceVals] :
         LET fn == GetFuncs(coords, c)
             tf == GetTotalForces(coords, g)
             dm == DispMat(tf, indices, args)
             mf == MaxForce(tf, indices)
             res == TotRes(old_funcs, fn)
             stop == Converged(res, mf, args)
         IN /\ funcs' = fn
            /\ tot_forces' = tf
            /\ disp_mat' = dm
            /\ coords' = UpdateCoords(coords, dm, indices)
            /\ max_force' = mf
            /\ tot_res' = res
            /\ converged' = stop
            /\ pc' = IF stop THEN "build" ELSE "loop"
            /\ old_funcs' = IF stop THEN old_funcs ELSE fn
            /\ n' = IF stop THEN n ELSE n + 1
    /\ nevals' = nevals + 1
    /\ UNCHANGED <<endpoints, nimages_arg, sort_tol, interp_calls, warnings, raised,
                   structures, init_coords, nimages, args, indices,
                   idpp_structures>>
    /\ UNCHANGED <<evars, pvars>>

\* a chain without interior images: np.shape(true_forces)[1] at line 259
\* raises IndexError in the first iteration
IterateNoImages ==
    /\ pc = "loop"
    /\ n < args.maxiter
    /\ nimages = 0
    /\ pc' = "raised"
    /\ raised' = "IndexError"
    /\ nevals' = nevals + 1
    /\ UNCHANGED <<endpoints, nimages_arg, sort_tol, interp_calls, warnings,
                   structures, init_coords, nimages, args, n, coords, old_funcs,
                   funcs, tot_forces, disp_mat, indices, max_force, tot_res,
                   converged, idpp_structures>>
    /\ UNCHANGED <<evars, pvars>>

ExhaustedSilent ==
    /\ pc = "loop"
    /\ n >= args.maxiter
    /\ pc' = "build"
    /\ UNCHANGED <<endpoints, nimages_arg, sort_tol, interp_calls, warnings, raised,
                   structures, init_coords, nimages, args, n, coords, old_funcs,
                   funcs, tot_forces, disp_mat, indices, max_force, tot_res,
                   converged, nevals, idpp_structures>>
    /\ UNCHANGED <<evars, pvars>>

\* lines 162-165: the loop's else branch
Exhausted ==
    /\ pc = "loop"
    /\ n >= args.maxiter
    /\ warnings' = Append(warnings, ConvergenceWarning)
    /\ pc' = "build"
    /\ UNCHANGED <<endpoints, nimages_arg, sort_tol, interp_calls, raised,
                   structures, init_coords, nimages, args, n, coords, old_funcs,
                   funcs, tot_forces, disp_mat, indices, max_force, tot_res,
                   converged, nevals, idpp_structures>>
    /\ UNCHANGED <<evars, pvars>>

\* lines 167-183
BuildStructures(strs, x) ==
    [k \in DOMAIN strs |->
        IF k = 0 THEN strs[0]
        ELSE IF k = nimages + 1 THEN strs[nimages + 1]
        ELSE [i \in DOMAIN strs[k] |-> Site(strs[k][i].sp, x[k][i], strs[k][i].props)]]

Build ==
    /\ pc = "build"
    /\ idpp_structures' = BuildStructures(structures, coords)
    /\ pc' = "returned"
    /\ UNCHANGED <<endpoints, nimages_arg, sort_tol, interp_calls, warnings, raised,
                   structures, init_coords, nimages, args, n, coords, old_funcs,
                   funcs, tot_forces, disp_mat, indices, max_force, tot_res,
                   converged, nevals>>
    /\ UNCHANGED <<evars, pvars>>

(***************************************************************************)
(* Symmetrized structures.  The crystals of the model are one-dimensional: *)
(* a structure is a function from the cell's site index 0..P-1 to the      *)
(* species at that position (in units of the site spacing); the site at    *)
(* position x + k*P is the k-th periodic image of site x.  A site is       *)
(* [specie, x2, lattice] with x2 twice its position, so that the midpoint  *)
(* of two sites has an integer x2 too, and lattice the period P.           *)
(*                                                                         *)
(* The space group and its equivalence test are pymatgen's; they are       *)
(* modelled as the group of the maps x -> s*x + c (s = 1 or -1) that keep  *)
(* the species pattern, and two site tuples are symmetrically equivalent   *)
(* when one operation maps the second tuple onto the first, site by site,  *)
(* up to periodic images.                                                  *)
(***************************************************************************)
SpeciesSet == {"Li", "O"}

Structures == [0..(CellSites - 1) -> SpeciesSet]

PSite(st, pos) ==
    [specie |-> st[pos % NumSites(st)], x2 |-> 2 * pos, lattice |-> NumSites(st)]

SymmOps(st) ==
    {op \in [s : {-1, 1}, c : DOMAIN st] :
        \A x \in DOMAIN st : st[(op.s * x + op.c) % NumSites(st)] = st[x]}

Operate(op, site) ==
    [specie |-> site.specie, x2 |-> op.s * site.x2 + 2 * op.c, lattice |-> site.lattice]

IsPeriodicImage(a, b) ==
    a.specie = b.specie /\ a.lattice = b.lattice /\ (a.x2 - b.x2) % (2 * a.lattice) = 0

AreSymmetricallyEquivalent(sg, sites1, sites2) ==
    \E op \in sg :
        \A k \in DOMAIN sites2 : IsPeriodicImage(sites1[k], Operate(op, sites2[k]))

MinOf(S) == CHOOSE m \in S : \A x \in S : m <= x

RECURSIVE SortedSeq(_)
SortedSeq(S) ==
    IF S = {} THEN <<>> ELSE <<MinOf(S)>> \o SortedSeq(S \ {MinOf(S)})

Orbit(st, sg, x) == {(op.s * x + op.c) % NumSites(st) : op \in sg}

\* SymmetrizedStructure.equivalent_sites: the orbits in the order of their
\* first site, each orbit in site order
EquivalentSites(st, sg) ==
    LET reps == SortedSeq({x \in DOMAIN st : x = MinOf(Orbit(st, sg, x))})
    IN [k \in 1..Len(reps) |->
          LET o == SortedSeq(Orbit(st, sg, reps[k]))
          IN [j \in 1..Len(o) |-> PSite(st, o[j])]]

\* SpacegroupAnalyzer(structure).get_symmetrized_structure()
Symmetrized(st) ==
    LET sg == SymmOps(st)
    IN [sites |-> st, spacegroup |-> sg, equivalent_sites |-> EquivalentSites(st, sg)]

\* SymmetrizedStructure.get_neighbors(site, r): the sites other than `site`
\* within distance r, periodic images included, by increasing position
GetNeighbors(ss, site, r) ==
    LET pos == site.x2 \div 2
        offs == [k \in 1..(2 * r) |-> IF k <= r THEN k - r - 1 ELSE k - r]
    IN [k \in 1..(2 * r) |-> PSite(ss.sites, pos + offs[k])]

(***************************************************************************)
(* MigrationPath                                                           *)
(***************************************************************************)
Unset == -1

\* __init__, lines 301-306: the index of the last orbit whose first site is
\* equivalent to `site`
OrbitIndex(ss, site) ==
    LET eqs == ss.equivalent_sites
        hits == {i \in DOMAIN eqs :
                    AreSymmetricallyEquivalent(ss.spacegroup, <<site>>, <<eqs[i][1]>>)}
    IN IF hits = {} THEN Unset ELSE MaxOf(hits) - 1

\* __init__, lines 295-306
MigrationPath(isite, esite, ss) ==
    [isite |-> isite,
     esite |-> esite,
     symm_structure |-> ss,
     msite |-> [specie |-> esite.specie, x2 |-> (isite.x2 + esite.x2) \div 2,
                lattice |-> esite.lattice],
     iindex |-> OrbitIndex(ss, isite),
     eindex |-> OrbitIndex(ss, esite)]

\* length, line 320
Length(p) == LET d == p.isite.x2 - p.esite.x2 IN (IF d < 0 THEN -d ELSE d) \div 2

HashOfSites(p) == p.isite.x2 + p.esite.x2

\* __hash__, line 323
Hash(p) == p.iindex + p.eindex

\* __eq__, lines 328-335
Eq(p, q) ==
    IF p.symm_structure # q.symm_structure THEN FALSE
    ELSE AreSymmetricallyEquivalent(p.symm_structure.spacegroup,
                                    <<p.isite, p.msite, p.esite>>,
                                    <<q.isite, q.msite, q.esite>>)

PathOf(ss, pair) == MigrationPath(PSite(ss.sites, pair[1]), PSite(ss.sites, pair[2]), ss)

\* two paths are built, compared and hashed
Compare ==
    /\ epc = "new"
    /\ LET p == PathOf(structA, pairA)
           q == PathOf(structB, pairB)
       IN /\ eq_result' = Eq(p, q)
          /\ hash_p' = Hash(p)
          /\ hash_q' = Hash(q)
    /\ epc' = "compared"
    /\ UNCHANGED <<structA, structB, pairA, pairB>>
    /\ UNCHANGED <<svars, pvars>>

(***************************************************************************)
(* DistinctPathFinder.get_paths                                            *)
(***************************************************************************)
RECURSIVE Flatten(_)
Flatten(ss) == IF ss = <<>> THEN <<>> ELSE Head(ss) \o Flatten(Tail(ss))

RECURSIVE SelectSpecie(_, _)
SelectSpecie(seq, sp) ==
    IF seq = <<>> THEN <<>>
    ELSE (IF Head(seq).specie = sp THEN <<Head(seq)>> ELSE <<>>)
            \o SelectSpecie(Tail(seq), sp)

\* lines 443-448: the (site0, nn) pairs in the order the loops visit them
Candidates(ss, sp, r) ==
    LET eqs == ss.equivalent_sites
        ofOrbit(k) ==
            IF eqs[k][1].specie # sp THEN <<>>
            ELSE LET kept == SelectSpecie(GetNeighbors(ss, eqs[k][1], r), sp)
                 IN [j \in 1..Len(kept) |-> <<eqs[k][1], kept[j]>>]
    IN Flatten([k \in 1..Len(eqs) |-> ofOrbit(k)])

SetAddByHashOnly(set, p) ==
    IF \E k \in 1..Len(set) : Hash(set[k]) = Hash(p) THEN set ELSE Append(set, p)

\* set.add, line 450: a key is found when a stored key has its hash and
\* equals it
SetAdd(set, p) ==
    IF \E k \in 1..Len(set) : Hash(set[k]) = Hash(p) /\ Eq(set[k], p)
    THEN set
    ELSE Append(set, p)

\* lines 443-450: one pass of the inner loop, or the end of the loops
AddPath ==
    /\ ppc = "enum"
    /\ LET cands == Candidates(symm_structure, migrating_specie, max_path_length)
       IN IF cand_k <= Len(cands)
          THEN /\ paths' = SetAdd(paths, MigrationPath(cands[cand_k][1], cands[cand_k][2],
                                                      symm_structure))
               /\ cand_k' = cand_k + 1
               /\ ppc' = ppc
               /\ UNCHANGED pending
          ELSE /\ ppc' = "sort"
               /\ pending' = DOMAIN paths
               /\ UNCHANGED <<paths, cand_k>>
    /\ UNCHANGED <<structure, symm_structure, migrating_specie, max_path_length,
                   path_list>>
    /\ UNCHANGED <<svars, evars>>

InsertAtEnd(sorted, p) == Append(sorted, p)

RECURSIVE InsertBeforeEqual(_, _)
InsertBeforeEqual(sorted, p) ==
    IF sorted = <<>> THEN <<p>>
    ELSE IF Length(Head(sorted)) < Length(p)
         THEN <<Head(sorted)>> \o InsertBeforeEqual(Tail(sorted), p)
         ELSE <<p>> \o sorted

\* sorted(paths, key=lambda p: p.length), line 452: the sort is stable, so p
\* goes behind every element before it that is not longer
RECURSIVE InsertByLength(_, _)
InsertByLength(sorted, p) ==
    IF sorted = <<>> THEN <<p>>
    ELSE IF Length(Head(sorted)) <= Length(p)
         THEN <<Head(sorted)>> \o InsertByLength(Tail(sorted), p)
         ELSE <<p>> \o sorted

\* line 452: sorted() iterates the set, in an order the set decides, and
\* puts each path in its place; the list is returned when the set is through
SortPaths ==
    /\ ppc = "sort"
    /\ IF pending # {}
       THEN /\ \E k \in pending :
                 /\ path_list' = InsertByLength(path_list, paths[k])
                 /\ pending' = pending \ {k}
            /\ ppc' = ppc
       ELSE /\ ppc' = "returned"
            /\ UNCHANGED <<path_list, pending>>
    /\ UNCHANGED <<structure, symm_structure, migrating_specie, max_path_length,
                   cand_k, paths>>
    /\ UNCHANGED <<svars, evars>>

(***************************************************************************)
(* Initial states.                                                         *)
(***************************************************************************)
EqIdle ==
    /\ epc = "idle" /\ structA = <<>> /\ structB = <<>> /\ pairA = <<>>
    /\ pairB = <<>> /\ eq_result = FALSE /\ hash_p = 0 /\ hash_q = 0

PathsIdle ==
    /\ ppc = "idle" /\ structure = <<>> /\ symm_structure = <<>>
    /\ migrating_specie = "none"
    /\ max_path_length = 0 /\ cand_k = 0 /\ paths = <<>> /\ pending = {}
    /\ path_list = <<>>

SolverInit ==
    /\ pc = "new"
    /\ nimages_arg \in 0..MaxImages
    /\ sort_tol \in SortTols
    /\ \E d \in EndSteps :
         endpoints = [e \in 0..1 |-> IF e = 0 THEN StartStructure
                                     ELSE EndStructure(d, nimages_arg + 1)]
    /\ interp_calls = <<>>
    /\ warnings = <<>>
    /\ raised = "none"
    /\ structures = NoChain
    /\ init_coords = NoChain
    /\ nimages = 0
    /\ args = NoArgs
    /\ n = 0
    /\ coords = NoChain
    /\ old_funcs = NoChain
    /\ funcs = NoChain
    /\ tot_forces = NoChain
    /\ disp_mat = NoChain
    /\ indices = {}
    /\ max_force = 0
    /\ tot_res = 0
    /\ converged = FALSE
    /\ nevals = 0
    /\ idpp_structures = NoChain

SolverIdle ==
    /\ pc = "idle" /\ nimages_arg = 0 /\ sort_tol = 0 /\ endpoints = NoChain
    /\ interp_calls = <<>> /\ warnings = <<>> /\ raised = "none"
    /\ structures = NoChain /\ init_coords = NoChain /\ nimages = 0
    /\ args = NoArgs /\ n = 0 /\ coords = NoChain /\ old_funcs = NoChain
    /\ funcs = NoChain /\ tot_forces = NoChain /\ disp_mat = NoChain
    /\ indices = {} /\ max_force = 0 /\ tot_res = 0 /\ converged = FALSE
    /\ nevals = 0 /\ idpp_structures = NoChain

Init == SolverInit /\ EqIdle /\ PathsIdle

Next == FromEndpoints \/ RunStart \/ Iterate \/ IterateNoImages \/ Exhausted \/ Build

Spec == Init /\ [][Next]_vars

\* the (isite, esite) position pairs a path is built from: a site of the
\* cell and a site at most MaxPathLength away
SitePairs ==
    {<<x, x + d>> : x \in 0..(CellSites - 1),
                    d \in (-MaxPathLength..MaxPathLength) \ {0}}

\* the structures that differ from st in the species of one site
OneSiteReplaced(st) ==
    {t \in Structures : Cardinality({x \in DOMAIN st : t[x] # st[x]}) = 1}

EqInit ==
    /\ epc = "new"
    /\ \E a \in Structures : \E b \in {a} \cup OneSiteReplaced(a) :
          structA = Symmetrized(a) /\ structB = Symmetrized(b)
    /\ pairA \in SitePairs
    /\ pairB \in SitePairs
    /\ eq_result = FALSE
    /\ hash_p = 0
    /\ hash_q = 0

InitEq == SolverIdle /\ EqInit /\ PathsIdle

NextEq == Compare

SpecEq == InitEq /\ [][NextEq]_vars

PathsInit ==
    /\ ppc = "enum"
    /\ structure \in Structures
    /\ symm_structure = Symmetrized(structure)
    /\ migrating_specie \in SpeciesSet
    /\ max_path_length \in 1..MaxPathLength
    /\ cand_k = 1
    /\ paths = <<>>
    /\ pending = {}
    /\ path_list = <<>>

InitPaths == SolverIdle /\ EqIdle /\ PathsInit

NextPaths == AddPath \/ SortPaths

SpecPaths == InitPaths /\ [][NextPaths]_vars

(***************************************************************************)
(* Properties of IDPPSolver (specification Spec).                          *)
(***************************************************************************)
CountOf(seq, w) == Cardinality({k \in 1..Len(seq) : seq[k] = w})

InRun == pc \in {"loop", "build", "returned"}

\* the sites a species filter lets move, read off the first structure
FilteredSites == {i \in DOMAIN structures[0] : structures[0][i].sp \in args.species}

MovableSites == IF args.has_species THEN FilteredSites ELSE DOMAIN structures[0]

\* C1. Endpoint invariance: in every iteration of run the coordinates of
\* image 0 and of image nimages+1 are those of the input chain, and the
\* returned list holds the input end-point structures (coordinates, species
\* and properties) at its first and last index.
C1_EndpointInvariance ==
    /\ InRun => /\ coords[0] = init_coords[0]
                /\ coords[nimages + 1] = init_coords[nimages + 1]
                /\ \A i \in DOMAIN structures[0] :
                      /\ coords[0][i] = structures[0][i].x
                      /\ coords[nimages + 1][i] = structures[nimages + 1][i].x
    /\ pc = "returned" => /\ DOMAIN idpp_structures = 0..(nimages + 1)
                          /\ idpp_structures[0] = structures[0]
                          /\ idpp_structures[nimages + 1] = structures[nimages + 1]
                          /\ idpp_structures[0] = endpoints[0]
                          /\ idpp_structures[nimages + 1] = endpoints[1]

\* a run that returned after moving an interior image
C1_Witness ==
    /\ pc = "returned"
    /\ nevals >= 1
    /\ \E k \in 1..nimages : coords[k] # init_coords[k]

\* C2. Species restriction: with a species filter that matches a site, a
\* site whose species is not in the filter keeps, in every interior image
\* and after every iteration, the position of the initial chain.
C2_SpeciesRestriction ==
    (InRun /\ args.has_species) =>
        \A k \in 1..nimages : \A i \in DOMAIN structures[k] :
            structures[k][i].sp \notin args.species =>
                /\ coords[k][i] = init_coords[k][i]
                /\ pc = "returned" => idpp_structures[k][i].x = structures[k][i].x

\* a filtered run that returned after displacing a filtered site, with a
\* non-zero force on an unfiltered site
C2_Witness ==
    /\ pc = "returned"
    /\ args.has_species
    /\ nevals >= 1
    /\ \E k \in 1..nimages : \E i, j \in DOMAIN structures[k] :
          /\ structures[k][i].sp \in args.species
          /\ coords[k][i] # init_coords[k][i]
          /\ structures[k][j].sp \notin args.species
          /\ tot_forces[k - 1][j] # 0

\* C5. Non-convergence is not fatal: a run that leaves the loop without
\* the convergence test having succeeded has made maxiter iterations,
\* emits the convergence warning once, raises nothing and returns the
\* nimages+2 configurations with the coordinates of the last iteration; a
\* run whose convergence test succeeded emits no convergence warning.
C5_AfterLoop ==
    /\ (pc \in {"build", "returned"} /\ ~converged) =>
          /\ nevals = args.maxiter
          /\ n = args.maxiter
          /\ CountOf(warnings, ConvergenceWarning) = 1
          /\ raised = "none"
    /\ (pc \in {"build", "returned"} /\ converged) =>
          CountOf(warnings, ConvergenceWarning) = 0
    /\ pc \in {"new", "ready", "loop", "raised"} =>
          CountOf(warnings, ConvergenceWarning) = 0
    /\ pc = "returned" =>
          /\ DOMAIN idpp_structures = 0..(nimages + 1)
          /\ \A k \in 1..nimages : \A i \in DOMAIN structures[k] :
                idpp_structures[k][i].x = coords[k][i]

C5_NonConvergenceNonFatal ==
    /\ []C5_AfterLoop
    /\ [][(pc = "loop" /\ n >= args.maxiter) =>
            (pc' = "build" /\ raised' = "none" /\ coords' = coords
             /\ warnings' = Append(warnings, ConvergenceWarning))]_vars
    /\ [][pc = "build" =>
            (pc' = "returned" /\ raised' = "none" /\ coords' = coords
             /\ warnings' = warnings)]_vars

\* a run that returned after maxiter >= 1 iterations, none of them converged
C5_Witness ==
    /\ pc = "returned"
    /\ ~converged
    /\ args.maxiter >= 1
    /\ nevals = args.maxiter
    /\ \E k \in 1..nimages : coords[k] # init_coords[k]

\* C6. An invalid species filter fails fast: a species restriction that
\* matches no site of the first structure ends run with ValueError before
\* any objective/force evaluation or coordinate update, and nothing is
\* returned.
C6_InvalidSpeciesFailsFast ==
    (pc \notin {"new", "ready"} /\ args.has_species /\ FilteredSites = {}) =>
        /\ pc = "raised"
        /\ raised = "ValueError"
        /\ nevals = 0
        /\ coords = init_coords
        /\ funcs = NoChain
        /\ tot_forces = NoChain
        /\ disp_mat = NoChain
        /\ idpp_structures = NoChain
        /\ CountOf(warnings, ConvergenceWarning) = 0

\* run was given a filter that matches no site and raised
C6_Witness ==
    /\ pc = "raised"
    /\ raised = "ValueError"
    /\ args.has_species
    /\ args.species # {}
    /\ args.maxiter >= 1

\* C8. Recovery in from_endpoints: a first interpolation that fails with
\* the structure-matching failure is retried exactly once with
\* autosort_tol = 0 and one warning, and the solver is built from the
\* retried chain; any other first failure propagates with no retry and no
\* warning; a failing retry propagates and no solver is built.
C8_FromEndpointsRecovery ==
    pc # "new" =>
        LET first == interp_calls[1]
            nwarn == CountOf(warnings, AutoSortWarning)
            built == pc # "raised" /\ structures # NoChain /\ raised = "none"
            chain == Interpolate(endpoints[0], endpoints[1], nimages_arg + 1)
        IN /\ Len(interp_calls) \in {1, 2}
           /\ first.autosort_tol = sort_tol
           /\ first.result = "ok" =>
                 /\ Len(interp_calls) = 1 /\ nwarn = 0
                 /\ structures = chain /\ nimages = nimages_arg
           /\ first.result = MatchError =>
                 /\ Len(interp_calls) = 2
                 /\ interp_calls[2].autosort_tol = 0
                 /\ nwarn = 1
                 /\ interp_calls[2].result = "ok" =>
                       (structures = chain /\ nimages = nimages_arg
                        /\ (pc = "raised" => raised # MatchError))
                 /\ interp_calls[2].result # "ok" =>
                       (pc = "raised" /\ raised = interp_calls[2].result
                        /\ structures = NoChain)
           /\ first.result \notin {"ok", MatchError} =>
                 /\ Len(interp_calls) = 1 /\ nwarn = 0
                 /\ pc = "raised" /\ raised = first.result
                 /\ structures = NoChain

\* the first interpolation failed to match, the retry succeeded and the
\* solver built from it ran
C8_Witness ==
    /\ Len(interp_calls) = 2
    /\ interp_calls[1].result = MatchError
    /\ interp_calls[2].result = "ok"
    /\ pc = "returned"
    /\ nimages >= 1

RECURSIVE SumAbsDiff(_, _, _)
SumAbsDiff(a, b, D) ==
    IF D = {} THEN 0
    ELSE LET d == CHOOSE d \in D : TRUE
         IN FAdd(FAbs(FSub(a[d], b[d])), SumAbsDiff(a, b, D \ {d}))

\* an iteration of run's loop that did not raise
IterationStep == pc = "loop" /\ nevals' = nevals + 1 /\ pc' # "raised"

\* the convergence test of the iteration just made, with the maximum force
\* taken over `sites`
StopCondition(sites) ==
    /\ FLt(SumAbsDiff(old_funcs, funcs', DOMAIN funcs'), args.tol)
    /\ FLt(FMax({FAbs(tot_forces'[ni][i]) : ni \in DOMAIN tot_forces', i \in sites}),
           args.gtol)

\* what an iteration does with the outcome of its convergence test
IterationOutcome(sites) ==
    IterationStep =>
        /\ (pc' = "build") <=> StopCondition(sites)
        /\ (pc' = "loop") <=> ~StopCondition(sites)
        /\ pc' = "loop" => (n' = n + 1 /\ warnings' = warnings)
        /\ pc' = "build" => warnings' = warnings

\* while iterations remain the loop iterates, and it is left without a
\* converged iteration only when none remains
LoopContinues ==
    /\ (pc = "loop" /\ n < args.maxiter) => nevals' = nevals + 1
    /\ (pc = "loop" /\ pc' = "build" /\ nevals' = nevals) => n >= args.maxiter

\* C9 (as amended). The loop stops at an iteration exactly when the summed
\* absolute change of the objective values of the interior images since the
\* previous iteration is below tol and the maximum absolute total-force
\* component over the sites allowed to move is below gtol; otherwise, while
\* iterations remain, another iteration is made.
C9_ConvergenceTestMovable ==
    [][IterationOutcome(MovableSites) /\ LoopContinues]_vars

\* C9 (as claimed). The same with the maximum taken over every total-force
\* component.
C9_ConvergenceTestAllSites ==
    [][IterationOutcome(DOMAIN structures[0]) /\ LoopContinues]_vars

\* a filtered run stopped by its second iteration's convergence test
C9_Witness ==
    /\ pc = "build"
    /\ converged
    /\ nevals = 2
    /\ args.has_species
    /\ \A ni \in DOMAIN tot_forces : \A i \in indices : ~IsNaN(tot_forces[ni][i])

\* C10. Max-displacement clamp: in every iteration, for every interior
\* image and movable site, the displacement added is step_size times the
\* total force when that is at most max_disp in magnitude and otherwise has
\* magnitude max_disp and the sign of the force; no coordinate changes by
\* more than max_disp in one iteration.
C10_MaxDisplacementClamp ==
    (InRun /\ nevals >= 1) =>
        \A ni \in DOMAIN tot_forces : \A i \in indices :
            LET f == tot_forces[ni][i]
                scaled == FMul(args.step_size, f)
                d == disp_mat[ni][i]
            IN /\ IF FLe(FAbs(scaled), args.max_disp)
                  THEN d = scaled
                  ELSE FAbs(d) = args.max_disp /\ FSign(d) = FSign(f)
               /\ FLe(FAbs(d), args.max_disp)

\* the clamp on the force components that are numbers
C10_ClampOfFiniteForces ==
    (InRun /\ nevals >= 1) =>
        \A ni \in DOMAIN tot_forces : \A i \in indices :
            LET f == tot_forces[ni][i]
                scaled == FMul(args.step_size, f)
                d == disp_mat[ni][i]
            IN ~IsNaN(f) =>
                /\ IF FLe(FAbs(scaled), args.max_disp)
                   THEN d = scaled
                   ELSE FAbs(d) = args.max_disp /\ FSign(d) = FSign(f)
                /\ FLe(FAbs(d), args.max_disp)

(***************************************************************************)
(* Properties of MigrationPath and DistinctPathFinder                      *)
(***************************************************************************)
\* the number of the orbit of equivalent_sites that holds the cell site
\* under `site`
OrbitNumber(ss, site) ==
    LET eqs == ss.equivalent_sites
    IN (CHOOSE i \in DOMAIN eqs :
            \E j \in DOMAIN eqs[i] : IsPeriodicImage(eqs[i][j], site)) - 1

ComparedP == PathOf(structA, pairA)

ComparedQ == PathOf(structB, pairB)

\* C3: for two paths p and q, p == q implies hash(p) = hash(q), the hash
\* being the orbit number of the initial site plus the orbit number of the
\* ending site; paths on different symmetrized structures are never equal.
C3_HashConsistentWithEq ==
    epc = "compared" =>
        /\ eq_result => hash_p = hash_q
        /\ hash_p = OrbitNumber(structA, ComparedP.isite) + OrbitNumber(structA, ComparedP.esite)
        /\ hash_q = OrbitNumber(structB, ComparedQ.isite) + OrbitNumber(structB, ComparedQ.esite)
        /\ structA # structB => ~eq_result

\* two different site pairs of one structure, related by an operation that
\* moves the sites, compared equal
C3_Witness ==
    /\ epc = "compared"
    /\ eq_result
    /\ structA = structB
    /\ ComparedP.isite # ComparedQ.isite
    /\ ~IsPeriodicImage(ComparedP.isite, ComparedQ.isite)
    /\ hash_p = hash_q

EnumeratedPaths ==
    LET cands == Candidates(symm_structure, migrating_specie, max_path_length)
    IN [k \in DOMAIN cands |-> MigrationPath(cands[k][1], cands[k][2], symm_structure)]

\* C4: get_paths returns one path per orbit of (representative, neighbour)
\* pairs: no two returned paths are equal, and every enumerated pair is
\* equal to some returned path.
C4_OnePathPerOrbit ==
    ppc = "returned" =>
        /\ \A i, j \in DOMAIN path_list :
              i # j => ~Eq(path_list[i], path_list[j])
        /\ \A k \in DOMAIN EnumeratedPaths :
              \E i \in DOMAIN path_list : Eq(path_list[i], EnumeratedPaths[k])
        /\ \A i \in DOMAIN path_list :
              \E k \in DOMAIN EnumeratedPaths : path_list[i] = EnumeratedPaths[k]

\* several orbits are returned and at least one enumerated pair was dropped
\* as the symmetry copy of another
C4_Witness ==
    /\ ppc = "returned"
    /\ Len(path_list) >= 2
    /\ Len(path_list) < Len(EnumeratedPaths)
    /\ \E k, l \in DOMAIN EnumeratedPaths :
          /\ k # l
          /\ EnumeratedPaths[k] # EnumeratedPaths[l]
          /\ Eq(EnumeratedPaths[k], EnumeratedPaths[l])

\* the distance between the initial and the ending site of a path
Distance(p) ==
    LET a == p.isite.x2 \div 2
        b == p.esite.x2 \div 2
    IN IF a <= b THEN b - a ELSE a - b

\* C7: in the list get_paths returns, every path is at most as long as the
\* path after it, the length being the distance from the initial to the
\* ending site.
C7_LengthOrdering ==
    ppc = "returned" =>
        /\ \A i \in 1..(Len(path_list) - 1) :
              Distance(path_list[i]) <= Distance(path_list[i + 1])
        /\ Len(path_list) = Len(paths)
        /\ \A k \in DOMAIN paths : \E i \in DOMAIN path_list : path_list[i] = paths[k]

\* paths of different lengths were returned, in another order than the one
\* they were found in
C7_Witness ==
    /\ ppc = "returned"
    /\ Len(path_list) >= 2
    /\ path_list # paths
    /\ Distance(path_list[1]) < Distance(path_list[Len(path_list)])

\* the place of a returned path in the set's insertion order
DiscoveryRank(p) == CHOOSE k \in DOMAIN paths : paths[k] = p

\* sorted() takes one more path from the set
Met(k) == ppc = "sort" /\ k \in pending /\ pending' = pending \ {k}

\* the list with p put in at place pos
InsertedAt(seq, pos, p) ==
    SubSeq(seq, 1, pos - 1) \o <<p>> \o SubSeq(seq, pos, Len(seq))

\* C11 (amended): among returned paths of equal length, the relative order
\* in the returned list is the order in which sorted() met them when it
\* iterated the set `paths` (the set, not the enumeration, decides that
\* order): a path goes into the list behind every path of its length that
\* the iteration met before it, and the paths already there keep their order.
C11_TieBreakIterationOrder ==
    [][\A k \in pending :
          Met(k) =>
            \E pos \in 1..(Len(path_list) + 1) :
                /\ path_list' = InsertedAt(path_list, pos, paths[k])
                /\ \A i \in DOMAIN path_list :
                      Distance(path_list[i]) = Distance(paths[k]) => i < pos]_vars

\* C11 (as claimed): among returned paths of equal length, the relative
\* order in the returned list is the order in which the paths were
\* discovered and inserted during enumeration.
C11_TieBreakDiscoveryOrder ==
    ppc = "returned" =>
        \A i, j \in DOMAIN path_list :
            (i < j /\ Distance(path_list[i]) = Distance(path_list[j]))
                => DiscoveryRank(path_list[i]) < DiscoveryRank(path_list[j])

\* two paths of one length were returned, and the set yielded them in the
\* opposite of the order in which they were inserted
C11_Witness ==
    /\ ppc = "returned"
    /\ \E i, j \in DOMAIN path_list :
          /\ i < j
          /\ Distance(path_list[i]) = Distance(path_list[j])
          /\ DiscoveryRank(path_list[j]) < DiscoveryRank(path_list[i])

====
